---------------------------- MODULE Spec2Model ----------------------------
(***************************************************************************)
(* gh2gl: mirror of a GitHub account's repositories to GitLab.             *)
(*                                                                         *)
(* The module models src/gh2gl/mirror.py:                                  *)
(*   - sanitize_project_name, as operators over strings represented as     *)
(*     sequences of one-character strings;                                 *)
(*   - mirror_repos, as a state machine with one action per step between   *)
(*     two external calls (keyring, GitHub API, GitLab API, git, rm).      *)
(***************************************************************************)
EXTENDS Integers, Sequences, FiniteSets, TLC

(***************************************************************************)
(* Characters.  A string is a sequence of one-character strings.           *)
(***************************************************************************)
LowerLetters ==
    { "a", "b", "c", "d", "e", "f", "g", "h", "i", "j", "k", "l", "m",
      "n", "o", "p", "q", "r", "s", "t", "u", "v", "w", "x", "y", "z" }

Digits == { "0", "1", "2", "3", "4", "5", "6", "7", "8", "9" }

\* The characters the regular expression class \s matches, as far as the
\* model's alphabet goes: the space and the tab.
Whitespace == { " ", "\t" }

\* The class [-._\s] of the second and third substitution.
SpecialChars == { "-", ".", "_" } \cup Whitespace

\* The class [a-z0-9._\-\s]: what the first substitution leaves alone.
KeptChars == LowerLetters \cup Digits \cup SpecialChars

\* str.lower() on one character; every other character of the model's
\* alphabet is its own lower case.
UpperToLower ==
    [ c \in { "A", "B", "C", "D", "E", "F", "G", "H", "I", "J", "K", "L", "M",
              "N", "O", "P", "Q", "R", "S", "T", "U", "V", "W", "X", "Y", "Z" }
      |-> CASE c = "A" -> "a" [] c = "B" -> "b" [] c = "C" -> "c" [] c = "D" -> "d"
            [] c = "E" -> "e" [] c = "F" -> "f" [] c = "G" -> "g" [] c = "H" -> "h"
            [] c = "I" -> "i" [] c = "J" -> "j" [] c = "K" -> "k" [] c = "L" -> "l"
            [] c = "M" -> "m" [] c = "N" -> "n" [] c = "O" -> "o" [] c = "P" -> "p"
            [] c = "Q" -> "q" [] c = "R" -> "r" [] c = "S" -> "s" [] c = "T" -> "t"
            [] c = "U" -> "u" [] c = "V" -> "v" [] c = "W" -> "w" [] c = "X" -> "x"
            [] c = "Y" -> "y" [] c = "Z" -> "z" ]

LowerChar(c) == IF c \in DOMAIN UpperToLower THEN UpperToLower[c] ELSE c

(***************************************************************************)
(* sanitize_project_name, step by step.                                    *)
(***************************************************************************)
\* The length limit of a GitLab project name.
MaxNameLen == 255

\* name.lower()
Lower(s) == [ i \in 1..Len(s) |-> LowerChar(s[i]) ]

\* re.sub(r"[^a-z0-9._\-\s]", "-", s)
ReplaceInvalid(s) == [ i \in 1..Len(s) |-> IF s[i] \in KeptChars THEN s[i] ELSE "-" ]

\* The positions that start a maximal run of special characters, and the
\* positions of the other characters, in increasing order.
RunStarts(s) ==
    SelectSeq([ i \in 1..Len(s) |-> i ],
              LAMBDA i : ~ (s[i] \in SpecialChars /\ i > 1 /\ s[i - 1] \in SpecialChars))

\* re.sub(r"[-._\s]{2,}", "-", s): a run of two or more special characters
\* becomes one dash, a single special character stays as it is.
CollapseSpecial(s) ==
    LET starts == RunStarts(s)
    IN  [ k \in 1..Len(starts) |->
            LET i == starts[k]
            IN  IF s[i] \in SpecialChars /\ i < Len(s) /\ s[i + 1] \in SpecialChars
                THEN "-"
                ELSE s[i] ]

\* s with its trailing characters of the set chars removed: str.rstrip(chars).
RStrip(s, chars) ==
    LET keep == { i \in 1..Len(s) : s[i] \notin chars }
    IN  IF keep = {} THEN << >>
        ELSE SubSeq(s, 1, CHOOSE i \in keep : \A j \in keep : j <= i)

\* s with its leading characters of the set chars removed.
LStrip(s, chars) ==
    LET keep == { i \in 1..Len(s) : s[i] \notin chars }
    IN  IF keep = {} THEN << >>
        ELSE SubSeq(s, CHOOSE i \in keep : \A j \in keep : i <= j, Len(s))

\* re.sub(r"^[-._\s]+|[-._\s]+$", "", s)
StripSpecial(s) == RStrip(LStrip(s, SpecialChars), SpecialChars)

reserved_names ==
    { <<"a", "p", "i">>, <<"w", "w", "w">>, <<"f", "t", "p">>,
      <<"m", "a", "i", "l">>, <<"p", "o", "p">>, <<"s", "m", "t", "p">>,
      <<"s", "t", "a", "g", "e">>, <<"s", "t", "a", "g", "i", "n", "g">>,
      <<"a", "d", "m", "i", "n">>, <<"r", "o", "o", "t">> }

ProjectSuffix == <<"-", "p", "r", "o", "j", "e", "c", "t">>

ProjectPrefix == <<"p", "r", "o", "j", "e", "c", "t", "-">>

UnnamedProject ==
    <<"u", "n", "n", "a", "m", "e", "d", "-", "p", "r", "o", "j", "e", "c", "t">>

\* A variant that lets a reserved name through.
SuffixReservedNever(s) == s

\* if sanitized in reserved_names: sanitized = f"{sanitized}-project"
SuffixReserved(s) == IF s \in reserved_names THEN s \o ProjectSuffix ELSE s

\* sanitized[:255].rstrip("-._"): the strip set has no whitespace in it.
TruncateName(s) == RStrip(SubSeq(s, 1, MaxNameLen), { "-", ".", "_" })

\* if not sanitized: "unnamed-project"; elif len(sanitized) > 255: truncate
FixLength(s) ==
    IF s = << >> THEN UnnamedProject
    ELSE IF Len(s) > MaxNameLen THEN TruncateName(s)
    ELSE s

\* if sanitized and sanitized[0].isdigit(): sanitized = f"project-{sanitized}"
PrefixDigit(s) == IF s # << >> /\ s[1] \in Digits THEN ProjectPrefix \o s ELSE s

sanitize_project_name(name) ==
    PrefixDigit(FixLength(SuffixReserved(
        StripSpecial(CollapseSpecial(ReplaceInvalid(Lower(name)))))))

(***************************************************************************)
(* mirror_repos: inputs and bounds.                                        *)
(***************************************************************************)
\* The repository names a GitHub account of the model may hold.
RepoNames ==
    { <<"M", "y", " ", "R", "e", "p", "o", "!", "!">>,
      <<"1", "2", "3", "a", "b", "c">>,
      <<"a", "p", "i">>,
      <<"m", "y", " ", "r", "e", "p", "o">> }

\* The largest number of repositories of the account.
MaxRepos == 3

\* per_page of the listing request.
PerPage == 100

\* All sequences over S of length at most n.
RECURSIVE SeqsUpTo(_, _)
SeqsUpTo(S, n) ==
    IF n = 0 THEN { << >> }
    ELSE LET shorter == SeqsUpTo(S, n - 1)
         IN  shorter \cup { Append(q, x) : q \in { t \in shorter : Len(t) = n - 1 }, x \in S }

\* The listings: repositories of pairwise different names, in any order.
Accounts ==
    { a \in SeqsUpTo(RepoNames, MaxRepos) :
        \A i, j \in 1..Len(a) : i # j => a[i] # a[j] }

\* What the GitHub API answers to page number p (1-indexed) of the listing.
PageOf(account, p) ==
    LET first == (p - 1) * PerPage + 1
        last  == IF p * PerPage < Len(account) THEN p * PerPage ELSE Len(account)
    IN  IF first > Len(account) THEN << >> ELSE SubSeq(account, first, last)

(***************************************************************************)
(* Responses of the GitLab project-creation endpoint.  A body is what      *)
(* r.json() gives: it parses or not, its "message" mentions the fields in  *)
(* `fields`, and str(message) contains "already been taken" or not.        *)
(***************************************************************************)
NoBody == [ parses |-> FALSE, fields |-> {}, taken |-> FALSE ]

Bodies ==
    { NoBody } \cup
    [ parses : { TRUE }, fields : SUBSET { "path", "name" }, taken : BOOLEAN ]

StatusCreated == 201

StatusBadRequest == 400

\* Created, a server error (a status that is neither 201 nor 400), and the
\* 400 responses with every body.
Responses ==
    { [ status |-> StatusCreated, body |-> NoBody ],
      [ status |-> 500, body |-> NoBody ] }
    \cup [ status : { StatusBadRequest }, body : Bodies ]

NoResponse == [ status |-> 0, body |-> NoBody ]

ZeroStats ==
    [ created |-> 0, already_existed |-> 0, skipped |-> 0,
      forced_update |-> 0, errors |-> 0, mirrored |-> 0 ]

NoSummary == [ total |-> -1, stats |-> ZeroStats ]

VARIABLES
    dry_run, skip_existing, force,  \* the parameters of mirror_repos
    keyring_complete,               \* all five credentials are in the keyring
    github_account,                 \* the repositories GitHub lists for the user
    pc,                             \* the statement mirror_repos is at
    page, repos,                    \* the listing loop
    idx,                            \* position of `repo` in repos (0: before the loop)
    sanitized_repo_name,
    repo_was_force_updated,
    stats,
    r,                              \* response to this repository's creation request
    clone_result, push_result,      \* "none", "ok", "failed"
    push_forced,                    \* the push of this repository carried --force
    push_project,                   \* the GitLab project this repository was pushed to
    temp_dirs,                      \* repositories whose <repo>_temp_mirror exists
    calls,                          \* requests and git commands issued so far
    posted,                         \* the names sent in creation requests, in order
    clone_failures,                 \* positions in repos whose clone failed
    faults,                         \* requests and git commands that did not succeed
    destinations,                   \* [repo, project]: project created for, or pushed to by, repo
    stats_before,                   \* stats when this repository's iteration began
    summary,                        \* the summary table, once printed
    sanIn, sanOut, sanAgain, sanStep \* sanitize_project_name applied on its own

vars ==
    << dry_run, skip_existing, force, keyring_complete, github_account, pc, page,
       repos, idx, sanitized_repo_name, repo_was_force_updated, stats, r,
       clone_result, push_result, push_forced, push_project, temp_dirs, calls,
       posted, clone_failures, faults, destinations, stats_before, summary,
       sanIn, sanOut, sanAgain, sanStep >>

params == << dry_run, skip_existing, force, keyring_complete, github_account >>

sanVars == << sanIn, sanOut, sanAgain, sanStep >>

perRepo == << r, clone_result, push_result, push_forced, push_project >>

history == << calls, posted, clone_failures, faults, destinations >>

NoCalls == [ github_get |-> 0, gitlab_post |-> 0, git_clone |-> 0, git_push |-> 0 ]

Init ==
    /\ dry_run \in BOOLEAN
    /\ skip_existing \in BOOLEAN
    /\ force \in BOOLEAN
    /\ keyring_complete \in BOOLEAN
    /\ github_account \in Accounts
    /\ pc = "Validate"
    /\ page = 1
    /\ repos = << >>
    /\ idx = 0
    /\ sanitized_repo_name = << >>
    /\ repo_was_force_updated = FALSE
    /\ stats = ZeroStats
    /\ r = NoResponse
    /\ clone_result = "none"
    /\ push_result = "none"
    /\ push_forced = FALSE
    /\ push_project = << >>
    /\ temp_dirs = {}
    /\ calls = NoCalls
    /\ posted = << >>
    /\ clone_failures = {}
    /\ faults = 0
    /\ destinations = {}
    /\ stats_before = ZeroStats
    /\ summary = NoSummary
    /\ sanIn = << >>
    /\ sanOut = << >>
    /\ sanAgain = << >>
    /\ sanStep = "idle"

Bump(st, counter) == [ st EXCEPT ![counter] = @ + 1 ]

(***************************************************************************)
(* Validation and listing.                                                 *)
(***************************************************************************)
\* A variant that lets the two options through together.
OptionsConflictIgnored(skip, frc) == FALSE

\* if skip_existing and force: ... return
OptionsConflict(skip, frc) == skip /\ frc

ValidateOptions ==
    /\ pc = "Validate"
    /\ pc' = IF OptionsConflict(skip_existing, force) THEN "Aborted" ELSE "Credentials"
    /\ UNCHANGED << params, page, repos, idx, sanitized_repo_name,
                    repo_was_force_updated, stats, perRepo, temp_dirs, history,
                    stats_before, summary, sanVars >>

\* The five keyring.get_password calls and `if not all([...]): ... return`.
LoadCredentials ==
    /\ pc = "Credentials"
    /\ pc' = IF keyring_complete THEN "Listing" ELSE "Aborted"
    /\ UNCHANGED << params, page, repos, idx, sanitized_repo_name,
                    repo_was_force_updated, stats, perRepo, temp_dirs, history,
                    stats_before, summary, sanVars >>

\* One turn of `while True`: the request succeeds and data is the page, or
\* the request (or the use of its body) raises and mirror_repos ends there.
FetchPage ==
    /\ pc = "Listing"
    /\ calls' = Bump(calls, "github_get")
    /\ \/ LET data == PageOf(github_account, page)
          IN  IF data = << >>
              THEN /\ pc' = "Loop"
                   /\ UNCHANGED << repos, page >>
              ELSE /\ repos' = repos \o data
                   /\ page' = page + 1
                   /\ pc' = "Listing"
       \/ /\ pc' = "Crashed"
          /\ UNCHANGED << repos, page >>
    /\ UNCHANGED << params, idx, sanitized_repo_name, repo_was_force_updated,
                    stats, perRepo, temp_dirs, posted, clone_failures, faults,
                    destinations, stats_before, summary, sanVars >>

(***************************************************************************)
(* The loop over the repositories.                                         *)
(***************************************************************************)
\* A variant without the dry-run branch.
AfterSanitizeNoDryRun(dry) == "Create"

\* `if dry_run: ... continue`: where the iteration goes after the name is
\* sanitized.
AfterSanitize(dry) == IF dry THEN "Loop" ELSE "Create"

\* `for repo in repos:` takes the next repository, up to the dry-run branch.
ForNext ==
    /\ pc = "Loop"
    /\ idx < Len(repos)
    /\ idx' = idx + 1
    /\ sanitized_repo_name' = sanitize_project_name(repos[idx + 1])
    /\ repo_was_force_updated' = FALSE
    /\ stats_before' = stats
    /\ r' = NoResponse
    /\ clone_result' = "none"
    /\ push_result' = "none"
    /\ push_forced' = FALSE
    /\ push_project' = << >>
    /\ pc' = AfterSanitize(dry_run)
    /\ UNCHANGED << params, page, repos, stats, temp_dirs, history, summary, sanVars >>

\* "message" in error_detail and field in error_detail["message"]
\* and "already been taken" in str(error_detail["message"])
MessageSaysTaken(body, field) == field \in body.fields /\ body.taken

\* A variant that takes only a name conflict as "exists".
AlreadyTakenNameOnly(body) == MessageSaysTaken(body, "name")

\* The condition of the `if` inside the try block: a path conflict or a name
\* conflict, both mean the project already exists.
AlreadyTaken(body) == MessageSaysTaken(body, "path") \/ MessageSaysTaken(body, "name")

\* A 400 response is taken as "the project exists" when its body says so, and
\* also when reading the body raises (the bare except).
TreatedAsExisting(resp) ==
    resp.status = StatusBadRequest /\ (~ resp.body.parses \/ AlreadyTaken(resp.body))

\* A variant that forgets to count already_existed.
ExistingStatsUncounted(st, skip, frc) ==
    IF skip THEN Bump(st, "skipped")
    ELSE IF frc THEN Bump(st, "forced_update")
    ELSE st

\* A variant that counts already_existed under the default policy only.
ExistingStatsSyncOnly(st, skip, frc) ==
    IF skip THEN Bump(st, "skipped")
    ELSE IF frc THEN Bump(st, "forced_update")
    ELSE Bump(st, "already_existed")

\* A variant that forgets to count skipped.
ExistingStatsSkipLost(st, skip, frc) ==
    LET st1 == Bump(st, "already_existed")
    IN  IF skip THEN st1
        ELSE IF frc THEN Bump(st1, "forced_update")
        ELSE st1

\* The counters after "Project ... already exists": already_existed always,
\* then skipped or forced_update by the policy.
ExistingStats(st, skip, frc) ==
    LET st1 == Bump(st, "already_existed")
    IN  IF skip THEN Bump(st1, "skipped")
        ELSE IF frc THEN Bump(st1, "forced_update")
        ELSE st1

\* A variant whose skip branch falls through to the git operations.
ExistingNeverSkips(skip) == "Clone"

\* After "already exists": `continue` when skipping, the git operations otherwise.
ExistingGoesTo(skip) == IF skip THEN "Loop" ELSE "Clone"

Destination(repo, project) == [ repo |-> repo, project |-> project ]

ProjectsOf(dests) == { d.project : d \in dests }

\* requests.post(create_url, ...) and the handling of its response.  GitLab
\* does not answer 201 for a project that this run has already created or
\* pushed to.
CreateProject ==
    /\ pc = "Create"
    /\ calls' = Bump(calls, "gitlab_post")
    /\ posted' = Append(posted, sanitized_repo_name)
    /\ \/ \E resp \in Responses :
            /\ resp.status = StatusCreated => sanitized_repo_name \notin ProjectsOf(destinations)
            /\ r' = resp
            /\ IF resp.status = StatusCreated
               THEN /\ stats' = Bump(stats, "created")
                    /\ pc' = "Clone"
                    /\ destinations' = destinations \cup { Destination(repos[idx], sanitized_repo_name) }
                    /\ UNCHANGED << repo_was_force_updated, faults >>
               ELSE IF TreatedAsExisting(resp)
               THEN /\ stats' = ExistingStats(stats, skip_existing, force)
                    /\ pc' = ExistingGoesTo(skip_existing)
                    /\ repo_was_force_updated' = (~ skip_existing /\ force)
                    /\ faults' = faults + 1
                    /\ UNCHANGED destinations
               ELSE /\ stats' = Bump(stats, "errors")
                    /\ pc' = "Loop"
                    /\ faults' = faults + 1
                    /\ UNCHANGED << repo_was_force_updated, destinations >>
       \/ \* the request raises (no connection): nothing catches it
          /\ pc' = "Crashed"
          /\ faults' = faults + 1
          /\ UNCHANGED << r, stats, repo_was_force_updated, destinations >>
    /\ UNCHANGED << params, page, repos, idx, sanitized_repo_name, clone_result,
                    push_result, push_forced, push_project, temp_dirs,
                    clone_failures, stats_before, summary, sanVars >>

\* A variant that returns from mirror_repos after a failed clone.
CloneFailedReturns == "Aborted"

\* `continue` after a failed clone.
CloneFailedGoesTo == "Loop"

\* git clone --mirror <github url> <repo>_temp_mirror, and the handling of
\* its return code.  The code removes nothing when the clone fails: the
\* directory is gone if git removed what it had written on its way out, and
\* is there if it was there before or if git was stopped before it could.
GitClone ==
    /\ pc = "Clone"
    /\ calls' = Bump(calls, "git_clone")
    /\ \/ /\ clone_result' = "ok"
          /\ temp_dirs' = temp_dirs \cup { repos[idx] }
          /\ pc' = "Push"
          /\ UNCHANGED << stats, clone_failures, faults >>
       \/ /\ clone_result' = "failed"
          /\ clone_failures' = clone_failures \cup { idx }
          /\ faults' = faults + 1
          /\ \E left \in BOOLEAN :
                temp_dirs' = IF left \/ repos[idx] \in temp_dirs
                             THEN temp_dirs \cup { repos[idx] }
                             ELSE temp_dirs
          /\ stats' = Bump(stats, "errors")
          /\ pc' = CloneFailedGoesTo
    /\ UNCHANGED << params, page, repos, idx, sanitized_repo_name,
                    repo_was_force_updated, r, push_result, push_forced,
                    push_project, posted, destinations, stats_before, summary,
                    sanVars >>

\* The project of gitlab_clone_url: <gitlab_user>/<sanitized_repo_name>.git
GitlabProject(name) == name

\* A variant that never passes --force.
PushArgsNoForce(frc) == FALSE

\* `if force: push_args.extend(["--force"])`
PushArgsForce(frc) == frc

\* git remote set-url --push origin <gitlab url>, then git push --mirror and
\* the count of its result.
GitPush ==
    /\ pc = "Push"
    /\ calls' = Bump(calls, "git_push")
    /\ push_forced' = PushArgsForce(force)
    /\ push_project' = GitlabProject(sanitized_repo_name)
    /\ \/ /\ push_result' = "ok"
          /\ stats' = Bump(stats, "mirrored")
          /\ destinations' =
                destinations \cup { Destination(repos[idx], GitlabProject(sanitized_repo_name)) }
          /\ UNCHANGED faults
       \/ /\ push_result' = "failed"
          /\ stats' = Bump(stats, "errors")
          /\ faults' = faults + 1
          /\ UNCHANGED destinations
    /\ pc' = "Cleanup"
    /\ UNCHANGED << params, page, repos, idx, sanitized_repo_name,
                    repo_was_force_updated, r, clone_result, temp_dirs, posted,
                    clone_failures, stats_before, summary, sanVars >>

\* rm -rf <repo>_temp_mirror, at the end of the iteration.
Cleanup ==
    /\ pc = "Cleanup"
    /\ temp_dirs' = temp_dirs \ { repos[idx] }
    /\ pc' = "Loop"
    /\ UNCHANGED << params, page, repos, idx, sanitized_repo_name,
                    repo_was_force_updated, stats, perRepo, history, stats_before,
                    summary, sanVars >>

\* The loop is over: the summary table.
Summarize ==
    /\ pc = "Loop"
    /\ idx = Len(repos)
    /\ summary' = [ total |-> Len(repos), stats |-> stats ]
    /\ pc' = "Done"
    /\ UNCHANGED << params, page, repos, idx, sanitized_repo_name,
                    repo_was_force_updated, stats, perRepo, temp_dirs, history,
                    stats_before, sanVars >>

Next ==
    \/ ValidateOptions
    \/ LoadCredentials
    \/ FetchPage
    \/ ForNext
    \/ CreateProject
    \/ GitClone
    \/ GitPush
    \/ Cleanup
    \/ Summarize

Spec == Init /\ [][Next]_vars

(***************************************************************************)
(* sanitize_project_name on its own: an input is chosen, the function is   *)
(* applied to it, and applied again to its result.                         *)
(***************************************************************************)
\* One character of each kind the function tells apart: a letter, an upper
\* case letter, a digit, a dash, a dot, a space, a tab, an invalid character.
SanAlphabet == { "a", "Z", "7", "-", ".", " ", "\t", "!" }

\* The longest text before, and after, the middle part of an input.
MaxHead == 1

MaxTail == 2

\* n times the letter a.
Filler(n) == [ i \in 1..n |-> "a" ]

\* The middle part of an input: nothing, a reserved name, or letters up to
\* about the length limit.
SanMiddles ==
    { << >> } \cup reserved_names
              \cup { Filler(n) : n \in (MaxNameLen - 2)..MaxNameLen }

\* The inputs: a head of at most maxHead characters, a middle part, a tail
\* of at most maxTail characters.
SanInputs(maxHead, maxTail) ==
    { h \o m \o t : h \in SeqsUpTo(SanAlphabet, maxHead), m \in SanMiddles,
                    t \in SeqsUpTo(SanAlphabet, maxTail) }

\* The variables of mirror_repos, at rest.
MirrorAtRest ==
    /\ dry_run = FALSE
    /\ skip_existing = FALSE
    /\ force = FALSE
    /\ keyring_complete = FALSE
    /\ github_account = << >>
    /\ pc = "Idle"
    /\ page = 1
    /\ repos = << >>
    /\ idx = 0
    /\ sanitized_repo_name = << >>
    /\ repo_was_force_updated = FALSE
    /\ stats = ZeroStats
    /\ r = NoResponse
    /\ clone_result = "none"
    /\ push_result = "none"
    /\ push_forced = FALSE
    /\ push_project = << >>
    /\ temp_dirs = {}
    /\ calls = NoCalls
    /\ posted = << >>
    /\ clone_failures = {}
    /\ faults = 0
    /\ destinations = {}
    /\ stats_before = ZeroStats
    /\ summary = NoSummary

mirrorVars ==
    << params, pc, page, repos, idx, sanitized_repo_name, repo_was_force_updated,
       stats, perRepo, temp_dirs, history, stats_before, summary >>

SanInit ==
    /\ MirrorAtRest
    /\ sanIn \in SanInputs(MaxHead, MaxTail)
    /\ sanOut = << >>
    /\ sanAgain = << >>
    /\ sanStep = "input"

SanApply ==
    /\ sanStep = "input"
    /\ sanOut' = sanitize_project_name(sanIn)
    /\ sanStep' = "once"
    /\ UNCHANGED << mirrorVars, sanIn, sanAgain >>

SanReapply ==
    /\ sanStep = "once"
    /\ sanAgain' = sanitize_project_name(sanOut)
    /\ sanStep' = "twice"
    /\ UNCHANGED << mirrorVars, sanIn, sanOut >>

SanNext == SanApply \/ SanReapply

SanSpec == SanInit /\ [][SanNext]_vars

(***************************************************************************)
(* Properties.                                                             *)
(***************************************************************************)
\* A creation response is on hand for the repository at position idx.
Answered == idx >= 1 /\ r # NoResponse

\* The 400 response whose message reports the path, and not the name, as
\* already taken.
PathTaken(resp) ==
    /\ resp.status = StatusBadRequest
    /\ resp.body.parses
    /\ resp.body.fields = { "path" }
    /\ resp.body.taken

\* The 400 response whose message reports the name as already taken.
NameTaken(resp) ==
    /\ resp.status = StatusBadRequest
    /\ resp.body.parses
    /\ "name" \in resp.body.fields
    /\ resp.body.taken

\* The iteration of the repository at position idx is over.
IterationOver == pc \in { "Loop", "Done" }

\* A transfer of this repository has begun or is about to.
TransferAttempted == pc = "Clone" \/ clone_result # "none"

NoTransfer == clone_result = "none" /\ push_result = "none" /\ push_project = << >>

Delta(counter) == stats[counter] - stats_before[counter]

\* C1: with skip_existing and force both set, with or without dry_run, the
\* run stops as a configuration error before any network call: no listing
\* request, no creation request, no git clone or push, no repository
\* processed, no summary.
C1_ConflictAbortsBeforeAnyCall ==
    (skip_existing /\ force) =>
        /\ pc \in { "Validate", "Aborted" }
        /\ calls = NoCalls
        /\ posted = << >>
        /\ repos = << >>
        /\ idx = 0
        /\ stats = ZeroStats
        /\ summary = NoSummary

C1_Witness == skip_existing /\ force /\ pc = "Aborted" /\ github_account # << >>

\* C2: in a dry run, under every policy, no creation request and no git
\* clone or push is issued for any repository, and the six counters are 0
\* when the summary is printed.
C2_DryRunDoesNothing ==
    dry_run =>
        /\ calls.gitlab_post = 0
        /\ calls.git_clone = 0
        /\ calls.git_push = 0
        /\ posted = << >>
        /\ NoTransfer
        /\ temp_dirs = {}
        /\ stats = ZeroStats
        /\ (pc = "Done" => summary = [ total |-> Len(repos), stats |-> ZeroStats ])

C2_Witness == dry_run /\ pc = "Done" /\ idx = Len(repos) /\ Len(repos) >= 2

\* name-1, name-2, name-3: the names a disambiguation would try.
Suffixed(name, k) == name \o << "-", << "1", "2", "3" >>[k] >>

C4_WorkingAreaRemoved == IterationOver => temp_dirs = {}

\* C5: after a "name already taken" response under SkipExisting the
\* repository is neither cloned nor pushed, skipped goes up by exactly 1,
\* mirrored and errors do not change.
C5_SkipExistingSkips ==
    (Answered /\ NameTaken(r) /\ skip_existing) =>
        /\ IterationOver
        /\ NoTransfer
        /\ Delta("skipped") = 1
        /\ Delta("mirrored") = 0
        /\ Delta("errors") = 0

C5_Witness ==
    /\ Answered /\ NameTaken(r) /\ skip_existing
    /\ idx >= 2 /\ stats.skipped >= 1 /\ calls.git_clone >= 1

\* C6: after a "name already taken" response under Force a transfer is
\* attempted, its push carries --force, and when clone and push succeed
\* forced_update and mirrored each go up by exactly 1.
C6_ForceOverwrites ==
    (Answered /\ NameTaken(r) /\ force) =>
        /\ TransferAttempted
        /\ push_result # "none" => push_forced
        /\ push_result = "ok" =>
              /\ clone_result = "ok"
              /\ Delta("forced_update") = 1
              /\ Delta("mirrored") = 1

C6_Witness ==
    /\ Answered /\ NameTaken(r) /\ force
    /\ push_result = "ok" /\ push_forced /\ IterationOver

\* C7: after a "name already taken" response under the default Sync policy
\* a transfer is attempted, its push does not carry --force, and when clone
\* and push succeed already_existed and mirrored each go up by exactly 1.
C7_SyncUpdates ==
    (Answered /\ NameTaken(r) /\ ~ skip_existing /\ ~ force) =>
        /\ TransferAttempted
        /\ ~ push_forced
        /\ push_result = "ok" =>
              /\ clone_result = "ok"
              /\ Delta("already_existed") = 1
              /\ Delta("mirrored") = 1

C7_Witness ==
    /\ Answered /\ NameTaken(r) /\ ~ skip_existing /\ ~ force
    /\ push_result = "ok" /\ IterationOver

\* C8: a failed clone does not stop the run.  The repository counts in
\* errors exactly once and is not pushed, the loop goes on with the next
\* repository, a later repository that is created, cloned and pushed counts
\* as created and mirrored, and the run ends with a creation request made
\* for every listed repository.
C8_CloneFailureIsolated ==
    /\ clone_result = "failed" =>
          /\ IterationOver
          /\ idx \in clone_failures
          /\ Delta("errors") = 1
          /\ Delta("mirrored") = 0
          /\ push_result = "none"
          /\ push_project = << >>
    /\ clone_failures # {} =>
          /\ pc \notin { "Aborted" }
          /\ pc # "Create" => Len(posted) = idx
          /\ pc = "Done" => (idx = Len(repos) /\ Len(posted) = Len(repos) /\ summary.stats = stats)
          /\ (idx \notin clone_failures /\ r.status = StatusCreated /\ push_result = "ok") =>
                (Delta("created") = 1 /\ Delta("mirrored") = 1 /\ Delta("errors") = 0)

C8_Witness ==
    /\ pc = "Done"
    /\ 1 \in clone_failures
    /\ idx = Len(repos) /\ idx >= 2 /\ idx \notin clone_failures
    /\ r.status = StatusCreated /\ push_result = "ok"

\* The characters a GitLab project name may hold, and those among them that
\* count as special.
LegalSpecials == { "-", ".", "_", " " }

LegalChars == LowerLetters \cup Digits \cup LegalSpecials

\* The legality invariants of a sanitized name, all at once.
Legal(s) ==
    /\ Len(s) >= 1
    /\ Len(s) <= MaxNameLen
    /\ \A i \in 1..Len(s) : s[i] \in LegalChars
    /\ \A i \in 1..(Len(s) - 1) : ~ (s[i] \in LegalSpecials /\ s[i + 1] \in LegalSpecials)
    /\ s[1] \notin LegalSpecials
    /\ s[Len(s)] \notin LegalSpecials
    /\ s \notin reserved_names
    /\ s[1] \notin Digits

\* C9: sanitize_project_name is idempotent: applied to its own result it
\* gives that result back, for every input.
C9_Idempotent == sanStep = "twice" => sanAgain = sanOut

\* C10: for every input the result of sanitize_project_name satisfies all
\* the legality invariants at once.
C10_AlwaysLegal == sanStep # "input" => Legal(sanOut)

\* The listing of the end-to-end scenario: "My Repo!!", "123abc", "api".
ScenarioListing ==
    << <<"M", "y", " ", "R", "e", "p", "o", "!", "!">>,
       <<"1", "2", "3", "a", "b", "c">>,
       <<"a", "p", "i">> >>

\* The scenario has run to its summary: default policy, and every creation
\* request, clone and push of the run succeeded.
ScenarioDone ==
    /\ github_account = ScenarioListing
    /\ ~ dry_run /\ ~ skip_existing /\ ~ force
    /\ pc = "Done"
    /\ faults = 0

ScenarioStats ==
    [ created |-> 3, already_existed |-> 0, skipped |-> 0,
      forced_update |-> 0, errors |-> 0, mirrored |-> 3 ]

\* C11 (as stated): in the scenario the names sent to GitLab are "my-repo",
\* "project-123abc", "api-project" in that order, and the summary shows
\* created = 3, mirrored = 3 and every other counter 0.
C11_ScenarioDashedName ==
    ScenarioDone =>
        /\ posted = << <<"m", "y", "-", "r", "e", "p", "o">>,
                       ProjectPrefix \o <<"1", "2", "3", "a", "b", "c">>,
                       <<"a", "p", "i">> \o ProjectSuffix >>
        /\ summary = [ total |-> 3, stats |-> ScenarioStats ]

\* C11 (amended): in the scenario the names sent to GitLab are "my repo"
\* (the single space is kept), "project-123abc", "api-project" in that
\* order, each repository is pushed to the project of that name, and the
\* summary shows created = 3, mirrored = 3 and every other counter 0.
C11_ScenarioNames ==
    ScenarioDone =>
        /\ posted = << <<"m", "y", " ", "r", "e", "p", "o">>,
                       ProjectPrefix \o <<"1", "2", "3", "a", "b", "c">>,
                       <<"a", "p", "i">> \o ProjectSuffix >>
        /\ destinations = { Destination(ScenarioListing[i], posted[i]) : i \in 1..3 }
        /\ stats = ScenarioStats
        /\ summary = [ total |-> 3, stats |-> ScenarioStats ]

C11_Witness == ScenarioDone /\ calls.git_push = 3 /\ push_result = "ok"

\* C12: once validation and listing have succeeded no failure of a single
\* repository is fatal, whatever the outcome of its creation request
\* (rejection, server error, request failure), clone and push: a run that
\* ends without its summary ended during validation or listing, before any
\* repository was taken up and before any creation request.
C12_AbortOnlyBeforeLoop ==
    pc \in { "Aborted", "Crashed" } =>
        /\ idx = 0
        /\ calls.gitlab_post = 0
        /\ posted = << >>

\* 1 when the push of this repository succeeded, 0 otherwise.
MirroredHere == IF push_result = "ok" THEN 1 ELSE 0

\* C13 (as stated): already_existed goes up only for a repository whose
\* project already exists under the default Sync policy; under SkipExisting
\* an existing project changes only skipped, under Force only forced_update
\* (and mirrored when the transfer succeeds), already_existed staying as it
\* was in both.
C13_ExistedOnlyUnderSync ==
    Answered =>
        /\ Delta("already_existed") = 1 =>
              (TreatedAsExisting(r) /\ ~ skip_existing /\ ~ force)
        /\ (TreatedAsExisting(r) /\ skip_existing) =>
              (Delta("already_existed") = 0 /\ Delta("skipped") = 1)
        /\ (TreatedAsExisting(r) /\ force) =>
              (Delta("already_existed") = 0 /\ Delta("forced_update") = 1)

\* C13 (amended): already_existed goes up by 1 for every repository whose
\* project already exists, under every policy, and for no other
\* repository.  Besides it, an existing project changes skipped alone under
\* SkipExisting, forced_update (and mirrored when the push succeeds) under
\* Force, and mirrored alone (when the push succeeds) under Sync.
C13_ExistedUnderEveryPolicy ==
    Answered =>
        /\ Delta("already_existed") = (IF TreatedAsExisting(r) THEN 1 ELSE 0)
        /\ TreatedAsExisting(r) =>
              /\ Delta("created") = 0
              /\ Delta("skipped") = (IF skip_existing THEN 1 ELSE 0)
              /\ Delta("forced_update") = (IF force THEN 1 ELSE 0)
              /\ Delta("mirrored") = MirroredHere
              /\ skip_existing => (Delta("mirrored") = 0 /\ Delta("errors") = 0)

C13_Witness ==
    /\ Answered /\ TreatedAsExisting(r) /\ skip_existing
    /\ Delta("already_existed") = 1 /\ Delta("skipped") = 1

\* The three counters of which every processed repository gets one.
OutcomeSum(st) == st.skipped + st.errors + st.mirrored

C14_OneOutcomeEach ==
    (~ dry_run /\ IterationOver) =>
        /\ OutcomeSum(stats) = idx
        /\ idx >= 1 =>
              /\ OutcomeSum(stats) - OutcomeSum(stats_before) = 1
              /\ \A c \in { "skipped", "errors", "mirrored" } : Delta(c) \in { 0, 1 }
        /\ pc = "Done" => OutcomeSum(summary.stats) = Len(repos)

C14_NeverDecremented == \A c \in DOMAIN stats : stats'[c] >= stats[c]

\* C14: in a run that is not a dry run every processed repository adds
\* exactly 1 to exactly one of skipped, errors, mirrored: after k
\* repositories the three sum to k, and to the number of listed
\* repositories at the summary.  No counter ever goes down.
C14_OutcomeCounters == [] C14_OneOutcomeEach /\ [][C14_NeverDecremented]_vars

C14_Witness ==
    /\ ~ dry_run /\ pc = "Done" /\ idx = 3
    /\ stats.skipped = 1 /\ stats.errors = 1 /\ stats.mirrored = 1

\* C15: within one run two listed repositories of different names are never
\* given the same GitLab project: no project is created for, or pushed to
\* by, two different repositories.
C15_NoSharedDestination ==
    \A d, e \in destinations : d.repo # e.repo => d.project # e.project

=============================================================================
